---- MODULE Spec2Model ----
(***************************************************************************)
(* Model of the article-generation pipeline of Whisper Fedora              *)
(* (src/article_generator.py): ArticleGenerator.extract_topics,            *)
(* generate_article, generate_all_formats and score_quality, driven by an  *)
(* external text-generation service whose replies are the environment's    *)
(* choice.                                                                 *)
(*                                                                         *)
(* Data representation.                                                    *)
(*   Python values are tagged records: PyNone, Num(n), Bool(b), Str(s),    *)
(*   List(a), Dict(o).  A str is a sequence of chunks (TLA+ strings); a    *)
(*   chunk stands for one or more characters that the code never looks     *)
(*   inside.  Numbers are floats with integral values (5.0 is Num(5)).     *)
(*   A service reply is Absent (Python None) or Text(x).  A reply to a     *)
(*   JSON request is a sequence of tokens (whitespace, fence marker,       *)
(*   the letters json, other prose, a complete JSON document); a reply to  *)
(*   a generation request is a sequence of lines.                          *)
(*   A source text is the length of a prefix of the transcription.         *)
(*                                                                         *)
(* Specifications.                                                         *)
(*   Spec         the four public methods, one call per behaviour          *)
(*   SpecTitle    generate_article on generated contents of every shape    *)
(*   SpecArticle  the construction of an Article                           *)
(*   SpecPrompt   generate_article for every format selector and texts     *)
(*                around the caps                                          *)
(*   SpecParse    extract_topics and score_quality on bare and fenced JSON *)
(*   SpecCaller   generate_all_formats and a caller who changes a topic    *)
(*                list of the result                                       *)
(*   SpecExport   export_all_articles                                      *)
(*   SpecProgress the three methods that report progress, with long lists  *)
(*                of formats                                               *)
(*   SpecPanel    the AI processing panel (src/ui/ai_panel.py)             *)
(*   SpecWorkflow the command-line workflow (src/zoom_to_blog.py)          *)
(***************************************************************************)
EXTENDS Integers, Sequences, FiniteSets, TLC

VARIABLES
    pc,           \* position of the single thread of control
    op,           \* the public method the caller invoked
    text,         \* argument text (its length)
    on_progress,  \* TRUE iff the caller supplied a progress callback
    formats,      \* generate_all_formats: the list of formats iterated
    i,            \* generate_all_formats: 0-based index of the loop
    format,       \* generate_article: the format argument
    supplied,     \* generate_article: TRUE iff the topics argument was given
    topics,       \* the TopicAnalysis in use (addresses into heap), or NoTopics
    heap,         \* the list objects the TopicAnalysis fields refer to
    articles,     \* generate_all_formats: the local list articles
    article,      \* the Article built by generate_article / passed to score_quality
    progress,     \* percentages delivered to the caller's callback, in order
    requests,     \* prompts sent to lm_client.chat_completion, in order
    replies,      \* the replies received from the service, in order
    result,       \* the value returned to the caller
    exc,          \* the exception that left the public method, or "none"
    files,        \* the output directory: the content of the file at each path
    panel,        \* the AIProcessingPanel: its fields, buttons and probes
    wf            \* run_workflow: its arguments and local variables

vars == <<pc, op, text, on_progress, formats, i, format, supplied, topics, heap,
          articles, article, progress, requests, replies, result, exc, files,
          panel, wf>>

----------------------------------------------------------------------------
(* Bounds of the model *)

MaxFormats == 2     \* longest list of formats passed to generate_all_formats
MaxTokens == 3      \* longest reply to a JSON request made on its own, in tokens
MaxLines == 6       \* longest generated content whose title is resolved, in lines
MaxContentLines == 3 \* longest content an Article is constructed with, in lines
MaxArticles == 2    \* longest list of Articles passed to export_all_articles
MaxSlices == 7      \* longest list of formats whose progress slices are computed
MaxTicks == 3       \* most timeouts of the panel's connection-check timer

----------------------------------------------------------------------------
(* Python values *)

PyNone == [t |-> "None"]
Num(n) == [t |-> "num", n |-> n]
Bool(b) == [t |-> "bool", b |-> b]
Str(s) == [t |-> "str", s |-> s]
List(a) == [t |-> "list", a |-> a]
Dict(o) == [t |-> "dict", o |-> o]

\* bool(v) as Python evaluates it in "if v:"
Truthy(v) ==
    CASE v.t = "None" -> FALSE
      [] v.t = "num" -> v.n # 0
      [] v.t = "bool" -> v.b
      [] v.t = "str" -> v.s # <<>>
      [] v.t = "list" -> v.a # <<>>
      [] v.t = "dict" -> DOMAIN v.o # {}

\* the outcome of evaluating an expression: a value or a raised exception
Ok(v) == [ok |-> TRUE, v |-> v]
Raise(e) == [ok |-> FALSE, e |-> e]

----------------------------------------------------------------------------
(* Service replies *)

Absent == [absent |-> TRUE]
Text(x) == [text |-> x]
IsAbsent(r) == "absent" \in DOMAIN r

\* a truth test that takes every str, the empty one included, for a reply
ResponseNotNone(r) == ~IsAbsent(r)

\* "if response:" / "if not response:" on an Optional[str]
ResponseTruthy(r) == ~IsAbsent(r) /\ r.text # <<>>

\* tokens of a reply to a JSON request
Ws == [k |-> "ws"]
Fence == [k |-> "fence"]
JsonTag == [k |-> "json"]
Junk == [k |-> "junk"]
Doc(v) == [k |-> "doc", v |-> v]

\* a JSON document with the fence marker inside one of its string values is
\* three tokens: its text before the marker, the marker, its text after
DocHead(v) == [k |-> "head", v |-> v]
DocTail(v) == [k |-> "tail", v |-> v]

RECURSIVE lstrip(_)
lstrip(x) == IF x # <<>> /\ Head(x) = Ws THEN lstrip(Tail(x)) ELSE x

RECURSIVE rstrip(_)
rstrip(x) ==
    IF x # <<>> /\ x[Len(x)] = Ws THEN rstrip(SubSeq(x, 1, Len(x) - 1)) ELSE x

\* str.strip()
strip(x) == rstrip(lstrip(x))

\* x.startswith(tok) for a one-token prefix
startswith(x, tok) == x # <<>> /\ Head(x) = tok

\* index of the first fence marker at or after position p, or Len(x) + 1
RECURSIVE FindFence(_, _)
FindFence(x, p) ==
    IF p > Len(x) THEN p
    ELSE IF x[p] = Fence THEN p ELSE FindFence(x, p + 1)

\* x.split("```")[1], for an x that starts with the fence marker
SplitFence1(x) == SubSeq(x, 2, FindFence(x, 2) - 1)

\* the unfencing extract_topics performs before json.loads
Unfence(resp) ==
    LET clean_response == strip(resp) IN
    IF startswith(clean_response, Fence)
    THEN LET inner == SplitFence1(clean_response) IN
         IF startswith(inner, JsonTag) THEN Tail(inner) ELSE inner
    ELSE clean_response

\* an unfencing that leaves the tag json in front of the document
UnfenceScoreKeepTag(resp) ==
    LET clean_response == strip(resp) IN
    IF startswith(clean_response, Fence)
    THEN SplitFence1(clean_response)
    ELSE clean_response

\* the unfencing score_quality performs before json.loads
UnfenceScore(resp) ==
    LET clean_response == strip(resp) IN
    IF startswith(clean_response, Fence)
    THEN LET inner == SplitFence1(clean_response) IN
         IF startswith(inner, JsonTag) THEN Tail(inner) ELSE inner
    ELSE clean_response

\* json.loads: surrounding whitespace is skipped, then exactly one document
json_loads(x) ==
    LET y == strip(x) IN
    IF Len(y) = 1 /\ y[1].k = "doc" THEN Ok(y[1].v)
    ELSE IF Len(y) = 3 /\ y[1].k = "head" /\ y = <<DocHead(y[1].v), Fence, DocTail(y[1].v)>>
    THEN Ok(y[1].v)
    ELSE Raise("JSONDecodeError")

----------------------------------------------------------------------------
(* Program constants *)

TopicTextCap == 15000      \* extract_topics: text[:15000]
max_text_len == 12000      \* _get_format_prompt
SocialTextCapGeneral == max_text_len   \* a social prompt without its own cap
SocialTextCap == 5000      \* _get_format_prompt: analysis_text[:5000]
DefaultScore == 5          \* score_quality: 5.0
TitleScanLines == 5        \* _extract_title: lines[:5]
SafeTitleLen == 50         \* export_all_articles: safe_title[:50]

\* ArticleFormat, in declaration order (the values of the enum members)
ArticleFormat == <<"blog", "faq", "listicle", "summary", "social">>

Min(a, b) == IF a < b THEN a ELSE b

\* a truncation that marks the cut with three more characters
TruncateEllipsis(t, n) == IF t > n THEN n + 3 ELSE t

\* text[:n] on a text given by its length
Truncate(t, n) == Min(t, n)

----------------------------------------------------------------------------
(* Data classes *)

\* the TopicAnalysis of a run: its four fields are references to list objects
TopicAnalysis(a) ==
    [main_topics |-> a, key_insights |-> a + 1,
     notable_quotes |-> a + 2, suggested_titles |-> a + 3]

NoTopics == [none |-> TRUE]
NoArticle == [none |-> TRUE]
NoResult == [none |-> TRUE]
NoPanel == [none |-> TRUE]
NoWorkflow == [none |-> TRUE]

\* a line of generated markdown: kind and the words after the marker
Line(l, s) == [l |-> l, s |-> s]
BlankLine == Line("blank", <<>>)

RECURSIVE SumLen(_)
SumLen(lines) ==
    IF lines = <<>> THEN 0
    ELSE (IF Head(lines).l \in {"h1", "h2"} THEN 1 ELSE 0)
         + Len(Head(lines).s) + SumLen(Tail(lines))

\* len(content.split()): the heading marker is a token of its own
WordCount(content) == SumLen(content)

\* Article(...) followed by __post_init__
Article(title, fmt, content, tps, word_count) ==
    [title |-> title, format |-> fmt, content |-> content, topics |-> tps,
     word_count |-> IF word_count = 0 THEN WordCount(content) ELSE word_count,
     quality_score |-> 0]

GenerationResult(source_text, topic_analysis, arts) ==
    [source_text |-> source_text, topic_analysis |-> topic_analysis,
     articles |-> arts]

----------------------------------------------------------------------------
(* extract_topics *)

TopicExtractionPrompt(t) ==
    [template |-> "TOPIC_EXTRACTION_PROMPT", text |-> Truncate(t, TopicTextCap)]

\* a lookup that gives None for a missing key, whatever the default
dict_get_none(data, key, default) ==
    IF data.t = "dict"
    THEN Ok(IF key \in DOMAIN data.o THEN data.o[key] ELSE PyNone)
    ELSE Raise("AttributeError")

\* data.get(key, default)
dict_get(data, key, default) ==
    IF data.t = "dict"
    THEN Ok(IF key \in DOMAIN data.o THEN data.o[key] ELSE default)
    ELSE Raise("AttributeError")

\* a fallback that is the default-constructed TopicAnalysis()
FallbackAnalysisEmpty == <<List(<<>>), List(<<>>), List(<<>>), List(<<>>)>>

\* the record returned when the reply is unusable
FallbackAnalysis ==
    <<List(<<Str(<<"General Discussion">>)>>),
      List(<<Str(<<"Content analysis unavailable">>)>>),
      List(<<>>),
      List(<<Str(<<"Untitled Article">>)>>)>>

\* extract_topics from "if response:" on: the four field values of the
\* TopicAnalysis returned, or the exception that escapes
extract_topics_parse(resp) ==
    IF ResponseTruthy(resp)
    THEN LET data == json_loads(Unfence(resp.text)) IN
         IF data.ok
         THEN IF dict_get(data.v, "topics", List(<<>>)).ok
              THEN Ok(<<dict_get(data.v, "topics", List(<<>>)).v,
                        dict_get(data.v, "insights", List(<<>>)).v,
                        dict_get(data.v, "quotes", List(<<>>)).v,
                        dict_get(data.v, "titles", List(<<>>)).v>>)
              ELSE Raise(dict_get(data.v, "topics", List(<<>>)).e)
         ELSE Ok(FallbackAnalysis)
    ELSE Ok(FallbackAnalysis)

----------------------------------------------------------------------------
(* _get_format_prompt *)

\* ", ".join(v): v must be an iterable whose items are all str
JoinStrings(v) ==
    CASE v.t = "list" ->
           IF \A k \in 1..Len(v.a) : v.a[k].t = "str" THEN Ok(v) ELSE Raise("TypeError")
      [] v.t = "str" -> Ok(v)
      [] v.t = "dict" -> Ok(v)
      [] OTHER -> Raise("TypeError")

\* "\n".join(f"..." for x in v): v must be iterable
Iterate(v) ==
    IF v.t \in {"list", "str", "dict"} THEN Ok(v) ELSE Raise("TypeError")

\* the prompt sent for a format, or the exception raised while rendering it
get_format_prompt(t, fmt, tp, hp) ==
    LET analysis_text == Truncate(t, max_text_len)
        main_topics == JoinStrings(hp[tp.main_topics])
        key_insights == Iterate(hp[tp.key_insights])
        notable_quotes == Iterate(hp[tp.notable_quotes])
    IN
    CASE fmt = "blog" ->
           IF ~main_topics.ok THEN main_topics
           ELSE IF ~key_insights.ok THEN key_insights
           ELSE Ok([template |-> "BLOG_POST_PROMPT", text |-> analysis_text,
                    topics |-> main_topics.v, insights |-> key_insights.v])
      [] fmt = "faq" ->
           Ok([template |-> "FAQ_PROMPT", text |-> analysis_text])
      [] fmt = "listicle" ->
           IF ~main_topics.ok THEN main_topics
           ELSE Ok([template |-> "LISTICLE_PROMPT", text |-> analysis_text,
                    topics |-> main_topics.v])
      [] fmt = "summary" ->
           Ok([template |-> "SUMMARY_PROMPT", text |-> analysis_text])
      [] fmt = "social" ->
           IF ~key_insights.ok THEN key_insights
           ELSE IF ~notable_quotes.ok THEN notable_quotes
           ELSE Ok([template |-> "SOCIAL_PROMPT",
                    text |-> Truncate(analysis_text, SocialTextCap),
                    insights |-> key_insights.v, quotes |-> notable_quotes.v])
      [] OTHER ->
           Ok([template |-> "Summarize this text", text |-> analysis_text])

----------------------------------------------------------------------------
(* _extract_title *)

RECURSIVE lstripLines(_)
lstripLines(c) ==
    IF c # <<>> /\ Head(c).l = "blank" THEN lstripLines(Tail(c)) ELSE c

RECURSIVE rstripLines(_)
rstripLines(c) ==
    IF c # <<>> /\ c[Len(c)].l = "blank"
    THEN rstripLines(SubSeq(c, 1, Len(c) - 1)) ELSE c

\* content.strip().split('\n')
StripSplit(content) ==
    LET c == rstripLines(lstripLines(content)) IN
    IF c = <<>> THEN <<BlankLine>> ELSE c

\* a scan that takes every line beginning with '#' for a heading
RECURSIVE FirstHeadingAnyLevel(_, _)
FirstHeadingAnyLevel(lines, k) ==
    IF k > Len(lines) THEN 0
    ELSE IF lines[k].l \in {"h1", "h2"} THEN k ELSE FirstHeadingAnyLevel(lines, k + 1)

\* the first line among lines[k..] that is a top-level heading, or 0
RECURSIVE FirstHeading(_, _)
FirstHeading(lines, k) ==
    IF k > Len(lines) THEN 0
    ELSE IF lines[k].l = "h1" THEN k ELSE FirstHeading(lines, k + 1)

\* v[0]
Subscript0(v) ==
    CASE v.t = "list" -> Ok(v.a[1])
      [] v.t = "str" -> Ok(Str(<<v.s[1]>>))
      [] v.t = "dict" -> Raise("KeyError")
      [] OTHER -> Raise("TypeError")

\* a title resolution that prefers the first topic to the suggested titles
extract_title_topic_first(content, tp, hp) ==
    LET lines == StripSplit(content)
        scanned == SubSeq(lines, 1, Min(Len(lines), TitleScanLines))
        h == FirstHeading(scanned, 1)
    IN
    IF h # 0 THEN Ok(Str(scanned[h].s))
    ELSE IF Truthy(hp[tp.main_topics]) THEN Subscript0(hp[tp.main_topics])
    ELSE IF Truthy(hp[tp.suggested_titles]) THEN Subscript0(hp[tp.suggested_titles])
    ELSE Ok(Str(<<"Untitled Article">>))

extract_title(content, tp, hp) ==
    LET lines == StripSplit(content)
        scanned == SubSeq(lines, 1, Min(Len(lines), TitleScanLines))
        h == FirstHeading(scanned, 1)
    IN
    IF h # 0 THEN Ok(Str(scanned[h].s))
    ELSE IF Truthy(hp[tp.suggested_titles]) THEN Subscript0(hp[tp.suggested_titles])
    ELSE IF Truthy(hp[tp.main_topics]) THEN Subscript0(hp[tp.main_topics])
    ELSE Ok(Str(<<"Untitled Article">>))

----------------------------------------------------------------------------
(* generate_article *)

FailureMessage ==
    <<Line("para", <<"Unable", "to", "generate", "article.", "Please",
                     "check", "LM", "Studio", "connection.">>)>>

\* a generate_article whose Articles take the insights for their topic list
generate_article_finish_insights(resp, fmt, tp, hp) ==
    IF ~ResponseTruthy(resp)
    THEN [ok |-> TRUE, reports |-> <<>>,
          v |-> Article(Str(<<"Generation Failed">>), fmt, FailureMessage,
                        tp.key_insights, 0)]
    ELSE LET title == extract_title(resp.text, tp, hp) IN
         IF ~title.ok THEN Raise(title.e)
         ELSE [ok |-> TRUE, reports |-> <<90, 100>>,
               v |-> Article(title.v, fmt, resp.text, tp.key_insights, 0)]

\* generate_article from "if not response:" on: the Article returned with the
\* percentages reported on the way, or the exception that escapes
generate_article_finish(resp, fmt, tp, hp) ==
    IF ~ResponseTruthy(resp)
    THEN [ok |-> TRUE, reports |-> <<>>,
          v |-> Article(Str(<<"Generation Failed">>), fmt, FailureMessage,
                        tp.main_topics, 0)]
    ELSE LET title == extract_title(resp.text, tp, hp) IN
         IF ~title.ok THEN Raise(title.e)
         ELSE [ok |-> TRUE, reports |-> <<90, 100>>,
               v |-> Article(title.v, fmt, resp.text, tp.main_topics, 0)]

----------------------------------------------------------------------------
(* score_quality *)

\* the prompt of the scoring request (the article excerpt it carries is not
\* represented)
QualityScoringPrompt == [template |-> "QUALITY_SCORING_PROMPT"]

Digits == <<"0", "1", "2", "3", "4", "5", "6", "7", "8", "9">>
IsDigit(c) == \E d \in 1..Len(Digits) : Digits[d] = c
DigitValue(c) == (CHOOSE d \in 1..Len(Digits) : Digits[d] = c) - 1

RECURSIVE Decimal(_)
Decimal(s) ==
    IF s = <<>> THEN 0
    ELSE 10 * Decimal(SubSeq(s, 1, Len(s) - 1)) + DigitValue(s[Len(s)])

RECURSIVE lstripChars(_)
lstripChars(s) == IF s # <<>> /\ Head(s) = " " THEN lstripChars(Tail(s)) ELSE s

RECURSIVE rstripChars(_)
rstripChars(s) ==
    IF s # <<>> /\ s[Len(s)] = " " THEN rstripChars(SubSeq(s, 1, Len(s) - 1)) ELSE s

\* float(v)
py_float(v) ==
    CASE v.t = "num" -> Ok(v.n)
      [] v.t = "bool" -> Ok(IF v.b THEN 1 ELSE 0)
      [] v.t = "str" ->
           LET y == rstripChars(lstripChars(v.s)) IN
           IF y # <<>> /\ \A k \in 1..Len(y) : IsDigit(y[k])
           THEN Ok(Decimal(y)) ELSE Raise("ValueError")
      [] OTHER -> Raise("TypeError")

\* score_quality from "if response:" on: the value returned and the article
\* as the call leaves it, or the exception that escapes
score_quality_finish(resp, a) ==
    IF ResponseTruthy(resp)
    THEN LET data == json_loads(UnfenceScore(resp.text)) IN
         IF ~data.ok THEN [ok |-> TRUE, v |-> DefaultScore, article |-> a]
         ELSE LET score == dict_get(data.v, "overall", Num(DefaultScore)) IN
              IF ~score.ok THEN Raise(score.e)
              ELSE LET f == py_float(score.v) IN
                   IF f.ok
                   THEN [ok |-> TRUE, v |-> f.v,
                         article |-> [a EXCEPT !.quality_score = f.v]]
                   ELSE IF f.e = "ValueError"
                   THEN [ok |-> TRUE, v |-> DefaultScore, article |-> a]
                   ELSE Raise(f.e)
    ELSE [ok |-> TRUE, v |-> DefaultScore, article |-> a]

----------------------------------------------------------------------------
(* Inputs *)

SeqsUpTo(S, n) == UNION {[1..k -> S] : k \in 0..n}

\* lengths of the source text: empty, and longer than every cap
SourceTexts == {0, TopicTextCap + 1}

FormatSet == {ArticleFormat[k] : k \in 1..Len(ArticleFormat)}

T1 == Str(<<"T1">>)
I1 == Str(<<"I1">>)
Q1 == Str(<<"Q1">>)
S1 == Str(<<"S1">>)

\* JSON documents a reply to the extraction request may hold
ExtractValues ==
    { Dict([topics |-> List(<<T1>>), insights |-> List(<<I1>>),
            quotes |-> List(<<Q1>>), titles |-> List(<<S1>>)]),
      Dict([topics |-> List(<<T1>>)]),
      Dict(<<>>),
      Dict([topics |-> Num(3), insights |-> List(<<I1>>)]),
      Dict([insights |-> PyNone, titles |-> Dict([a |-> S1])]),
      List(<<T1>>), Num(7), Str(<<"x">>), PyNone }

\* JSON documents a reply to the scoring request may hold
ScoreValues ==
    { Dict([overall |-> Num(7), clarity |-> Num(8)]),
      Dict([overall |-> Str(<<" ", "7">>)]),
      Dict([overall |-> Str(<<"x">>)]),
      Dict([overall |-> PyNone]),
      Dict([overall |-> List(<<Num(7)>>)]),
      Dict([overall |-> Dict([a |-> Num(7)])]),
      Dict([overall |-> Bool(TRUE)]),
      Dict([clarity |-> Num(8)]),
      List(<<Num(7)>>), Num(7), PyNone }

JsonTokens(V) == {Ws, Fence, JsonTag, Junk} \cup {Doc(v) : v \in V}

\* replies to a JSON request made by a call of extract_topics or score_quality
JsonReplies(V) ==
    {Absent} \cup {Text(x) : x \in SeqsUpTo(JsonTokens(V), MaxTokens)}

\* replies to the extraction request made inside generate_article and
\* generate_all_formats
PipelineExtractReplies ==
    {Absent, Text(<<>>), Text(<<Junk>>)}
    \cup {Text(<<Doc(v)>>) : v \in ExtractValues}
    \cup {Text(<<Fence, JsonTag, Ws, Doc(v), Ws, Fence>>) : v \in ExtractValues}

Para == Line("para", <<"w1", "w2", "w3">>)

\* replies to a generation request
GenerateReplies ==
    { Absent, Text(<<>>), Text(<<Para>>),
      Text(<<BlankLine, Line("h2", <<"Sub">>), Line("h1", <<"My", "Title">>), Para>>) }

\* the lists of formats a caller passes to generate_all_formats
FormatLists == SeqsUpTo(FormatSet, MaxFormats)

\* the TopicAnalysis values a caller passes to generate_article
SuppliedTopics ==
    { FallbackAnalysis,
      <<List(<<>>), List(<<>>), List(<<>>), List(<<>>)>>,
      <<List(<<T1>>), List(<<I1>>), List(<<Q1>>), List(<<S1>>)>> }

\* the Articles a caller passes to score_quality: fresh, or scored before
ScoredArticles ==
    { [Article(Str(<<"My", "Title">>), f, <<Para>>, 1, 0) EXCEPT !.quality_score = q] :
        f \in {"blog", "social"}, q \in {0, 8} }

----------------------------------------------------------------------------
(* Progress reporting *)

\* on_progress(pct, ...) for each pct of pcts, when a callback was supplied
Emit(cb, prog, pcts) == IF cb THEN prog \o pcts ELSE prog

\* a base_progress that spreads the formats over the whole 0-100 range
base_progress_full_range(k, n) == 30 + (100 * k) \div n

\* base_progress of loop iteration k of n
base_progress(k, n) == 30 + (60 * k) \div n

\* a format_progress that forgets to divide the slice by the number of formats
format_progress_unscaled(pct, k, n) == base_progress(k, n) + (pct * 6) \div 10

\* the percentage format_progress forwards for pct; int(pct * 0.6 / n) is
\* the integer part of 6 pct / (10 n) for the percentages reported
format_progress(pct, k, n) == base_progress(k, n) + (pct * 6) \div (10 * n)

----------------------------------------------------------------------------
(* The state machine *)

Init ==
    /\ pc = "idle"
    /\ op = "none"
    /\ text = 0
    /\ on_progress = FALSE
    /\ formats = <<>>
    /\ i = 0
    /\ format = "none"
    /\ supplied = FALSE
    /\ topics = NoTopics
    /\ heap = <<>>
    /\ articles = <<>>
    /\ article = NoArticle
    /\ progress = <<>>
    /\ requests = <<>>
    /\ replies = <<>>
    /\ result = NoResult
    /\ exc = "none"
    /\ files = <<>>
    /\ panel = NoPanel
    /\ wf = NoWorkflow

\* an exception leaves the public method
Raised(e) ==
    /\ pc' = "raised"
    /\ exc' = e
    /\ result' = NoResult

\* the public method returns v
Returned(v) ==
    /\ pc' = "returned"
    /\ exc' = "none"
    /\ result' = v

\* ---- extract_topics(text, on_progress) ----

Call_extract_topics(t, cb) ==
    /\ op' = "extract_topics"
    /\ text' = t
    /\ on_progress' = cb
    /\ progress' = Emit(cb, progress, <<10>>)
    /\ requests' = Append(requests, TopicExtractionPrompt(t))
    /\ pc' = "extract_wait"
    /\ UNCHANGED <<formats, i, format, topics, heap, articles, article,
                   replies, supplied, result, exc>>

Return_extract_topics(r) ==
    /\ replies' = Append(replies, r)
    /\ progress' = Emit(on_progress, progress, <<30>>)
    /\ LET parsed == extract_topics_parse(r) IN
       IF parsed.ok
       THEN /\ heap' = parsed.v
            /\ topics' = TopicAnalysis(1)
            /\ Returned(TopicAnalysis(1))
       ELSE /\ Raised(parsed.e)
            /\ UNCHANGED <<heap, topics>>
    /\ UNCHANGED <<op, text, on_progress, formats, i, format, supplied, articles,
                   article, requests>>

\* ---- generate_article(text, format, topics, on_progress) ----

\* a generate_article that sends the generation request without reporting 40
generate_article_request_unreported(tp, hp, prog) ==
    LET prompt == get_format_prompt(text', format', tp, hp) IN
    IF prompt.ok
    THEN /\ progress' = prog
         /\ requests' = Append(requests, prompt.v)
         /\ pc' = "generate_wait"
         /\ UNCHANGED <<result, exc>>
    ELSE /\ progress' = prog
         /\ UNCHANGED requests
         /\ Raised(prompt.e)

\* from "prompt = self._get_format_prompt(...)" to the generation request
generate_article_request(tp, hp, prog) ==
    LET prompt == get_format_prompt(text', format', tp, hp) IN
    IF prompt.ok
    THEN /\ progress' = Emit(on_progress', prog, <<40>>)
         /\ requests' = Append(requests, prompt.v)
         /\ pc' = "generate_wait"
         /\ UNCHANGED <<result, exc>>
    ELSE /\ progress' = prog
         /\ UNCHANGED requests
         /\ Raised(prompt.e)

\* a selector that is a member of some other Enum: not one of the five
\* formats, but an object with a value attribute
ForeignMember == "Other.PDF"

\* selectors outside ArticleFormat: a plain str, and a foreign Enum member
UnknownFormats == {"podcast", ForeignMember}

\* format.value, as the progress messages of generate_article evaluate it
format_value(fmt) ==
    IF fmt \in FormatSet \cup {ForeignMember} THEN Ok(fmt) ELSE Raise("AttributeError")

Call_generate_article(t, fmt, supplied_, tv, cb) ==
    /\ op' = "generate_article"
    /\ text' = t
    /\ format' = fmt
    /\ on_progress' = cb
    /\ IF cb /\ ~format_value(fmt).ok
       THEN /\ Raised(format_value(fmt).e)
            /\ UNCHANGED <<heap, topics, progress, requests>>
       ELSE IF supplied_
       THEN /\ heap' = tv
            /\ topics' = TopicAnalysis(1)
            /\ generate_article_request(TopicAnalysis(1), tv,
                                        Emit(cb, progress, <<0>>))
       ELSE /\ progress' = Emit(cb, progress, <<0, 10>>)
            /\ requests' = Append(requests, TopicExtractionPrompt(t))
            /\ pc' = "extract_wait"
            /\ UNCHANGED <<heap, topics, result, exc>>
    /\ supplied' = supplied_
    /\ UNCHANGED <<formats, i, articles, article, replies>>

generate_article_topics(r) ==
    /\ replies' = Append(replies, r)
    /\ UNCHANGED <<op, text, on_progress, formats, i, format, supplied, articles, article>>
    /\ LET parsed == extract_topics_parse(r)
           prog == Emit(on_progress, progress, <<30>>)
       IN
       IF parsed.ok
       THEN /\ heap' = parsed.v
            /\ topics' = TopicAnalysis(1)
            /\ generate_article_request(TopicAnalysis(1), parsed.v, prog)
       ELSE /\ progress' = prog
            /\ Raised(parsed.e)
            /\ UNCHANGED <<heap, topics, requests>>

Return_generate_article(r) ==
    /\ replies' = Append(replies, r)
    /\ LET done == generate_article_finish(r, format, topics, heap) IN
       IF done.ok
       THEN /\ progress' = Emit(on_progress, progress, done.reports)
            /\ article' = done.v
            /\ Returned(done.v)
       ELSE /\ Raised(done.e)
            /\ UNCHANGED <<progress, article>>
    /\ UNCHANGED <<op, text, on_progress, formats, i, format, supplied, topics, heap,
                   articles, requests>>

\* ---- generate_all_formats(text, formats, on_progress) ----

\* a loop that sends the request of a format a second time without waiting
\* for the reply to the first
generate_all_formats_loop_resend(tp, hp, k, arts, prog, reqs) ==
    LET n == Len(formats) IN
    IF k >= n
    THEN /\ progress' = Emit(on_progress, prog, <<100>>)
         /\ requests' = reqs
         /\ Returned(GenerationResult(text, tp, arts))
    ELSE LET prompt == get_format_prompt(text, formats[k + 1], tp, hp) IN
         IF prompt.ok
         THEN /\ progress' = Emit(on_progress, prog,
                                  <<format_progress(0, k, n), format_progress(40, k, n)>>)
              /\ requests' = Append(Append(reqs, prompt.v), prompt.v)
              /\ pc' = "generate_wait"
              /\ UNCHANGED <<result, exc>>
         ELSE /\ progress' = Emit(on_progress, prog, <<format_progress(0, k, n)>>)
              /\ requests' = reqs
              /\ Raised(prompt.e)

\* the loop of generate_all_formats from the top of iteration k (0-based) up
\* to the next generation request, the return, or an escaping exception
generate_all_formats_loop(tp, hp, k, arts, prog, reqs) ==
    LET n == Len(formats) IN
    IF k >= n
    THEN /\ progress' = Emit(on_progress, prog, <<100>>)
         /\ requests' = reqs
         /\ Returned(GenerationResult(text, tp, arts))
    ELSE LET prompt == get_format_prompt(text, formats[k + 1], tp, hp) IN
         IF prompt.ok
         THEN /\ progress' = Emit(on_progress, prog,
                                  <<format_progress(0, k, n), format_progress(40, k, n)>>)
              /\ requests' = Append(reqs, prompt.v)
              /\ pc' = "generate_wait"
              /\ UNCHANGED <<result, exc>>
         ELSE /\ progress' = Emit(on_progress, prog, <<format_progress(0, k, n)>>)
              /\ requests' = reqs
              /\ Raised(prompt.e)

Call_generate_all_formats(t, omitted, fs, cb) ==
    /\ op' = "generate_all_formats"
    /\ text' = t
    /\ formats' = IF omitted THEN ArticleFormat ELSE fs
    /\ on_progress' = cb
    /\ progress' = Emit(cb, progress, <<0, 10>>)
    /\ requests' = Append(requests, TopicExtractionPrompt(t))
    /\ pc' = "extract_wait"
    /\ UNCHANGED <<i, format, supplied, topics, heap, articles, article, replies,
                   result, exc>>

generate_all_formats_topics(r) ==
    /\ replies' = Append(replies, r)
    /\ UNCHANGED <<op, text, on_progress, formats, i, format, supplied, articles, article>>
    /\ LET parsed == extract_topics_parse(r)
           prog == Emit(on_progress, progress, <<30>>)
       IN
       IF parsed.ok
       THEN /\ heap' = parsed.v
            /\ topics' = TopicAnalysis(1)
            /\ generate_all_formats_loop(TopicAnalysis(1), parsed.v, 0, <<>>,
                                         prog, requests)
       ELSE /\ progress' = prog
            /\ Raised(parsed.e)
            /\ UNCHANGED <<heap, topics, requests>>

\* a loop step whose title resolution takes the first suggested title out of
\* the list
generate_all_formats_article_consuming(r) ==
    /\ replies' = Append(replies, r)
    /\ UNCHANGED <<op, text, on_progress, formats, format, supplied, topics, article>>
    /\ heap' = IF heap[topics.suggested_titles].t = "list"
                    /\ heap[topics.suggested_titles].a # <<>>
               THEN [heap EXCEPT ![topics.suggested_titles] = List(Tail(@.a))]
               ELSE heap
    /\ LET n == Len(formats)
           done == generate_article_finish(r, formats[i + 1], topics, heap)
       IN
       IF done.ok
       THEN /\ articles' = Append(articles, done.v)
            /\ i' = i + 1
            /\ generate_all_formats_loop(topics, heap, i + 1, Append(articles, done.v),
                   Emit(on_progress, progress,
                        [j \in 1..Len(done.reports) |->
                            format_progress(done.reports[j], i, n)]),
                   requests)
       ELSE /\ Raised(done.e)
            /\ UNCHANGED <<articles, i, progress, requests>>

generate_all_formats_article(r) ==
    /\ replies' = Append(replies, r)
    /\ UNCHANGED <<op, text, on_progress, formats, format, supplied, topics, heap, article>>
    /\ LET n == Len(formats)
           done == generate_article_finish(r, formats[i + 1], topics, heap)
       IN
       IF done.ok
       THEN /\ articles' = Append(articles, done.v)
            /\ i' = i + 1
            /\ generate_all_formats_loop(topics, heap, i + 1, Append(articles, done.v),
                   Emit(on_progress, progress,
                        [j \in 1..Len(done.reports) |->
                            format_progress(done.reports[j], i, n)]),
                   requests)
       ELSE /\ Raised(done.e)
            /\ UNCHANGED <<articles, i, progress, requests>>

\* ---- score_quality(article) ----

Call_score_quality(a) ==
    /\ op' = "score_quality"
    /\ article' = a
    /\ heap' = <<List(<<>>)>>
    /\ requests' = Append(requests, QualityScoringPrompt)
    /\ pc' = "score_wait"
    /\ UNCHANGED <<text, on_progress, formats, i, format, supplied, topics, articles,
                   progress, replies, result, exc>>

Return_score_quality(r) ==
    /\ replies' = Append(replies, r)
    /\ LET done == score_quality_finish(r, article) IN
       IF done.ok
       THEN /\ article' = done.article
            /\ Returned(Num(done.v))
       ELSE /\ Raised(done.e)
            /\ UNCHANGED article
    /\ UNCHANGED <<op, text, on_progress, formats, i, format, supplied, topics, heap,
                   articles, progress, requests>>

----------------------------------------------------------------------------

\* the caller invokes one public method of an idle generator
Call ==
    /\ pc = "idle"
    /\ UNCHANGED <<files, panel, wf>>
    /\ \/ \E t \in SourceTexts, cb \in BOOLEAN : Call_extract_topics(t, cb)
       \/ \E t \in SourceTexts, fmt \in FormatSet, cb \in BOOLEAN, tv \in SuppliedTopics :
             Call_generate_article(t, fmt, TRUE, tv, cb)
       \/ \E t \in SourceTexts, fmt \in FormatSet, cb \in BOOLEAN :
             Call_generate_article(t, fmt, FALSE, <<>>, cb)
       \/ \E t \in SourceTexts, cb \in BOOLEAN, fs \in FormatLists :
             Call_generate_all_formats(t, FALSE, fs, cb)
       \/ \E t \in SourceTexts, cb \in BOOLEAN :
             Call_generate_all_formats(t, TRUE, <<>>, cb)
       \/ \E a \in ScoredArticles : Call_score_quality(a)

\* the service answers the extraction request
ExtractReply ==
    /\ pc = "extract_wait"
    /\ UNCHANGED <<files, panel, wf>>
    /\ \/ op = "extract_topics"
          /\ \E r \in JsonReplies(ExtractValues) : Return_extract_topics(r)
       \/ op = "generate_article"
          /\ \E r \in PipelineExtractReplies : generate_article_topics(r)
       \/ op = "generate_all_formats"
          /\ \E r \in PipelineExtractReplies : generate_all_formats_topics(r)

\* the service answers a generation request
GenerateReply ==
    /\ pc = "generate_wait"
    /\ UNCHANGED <<files, panel, wf>>
    /\ \/ op = "generate_article"
          /\ \E r \in GenerateReplies : Return_generate_article(r)
       \/ op = "generate_all_formats"
          /\ \E r \in GenerateReplies : generate_all_formats_article(r)

\* the service answers the scoring request
ScoreReply ==
    /\ pc = "score_wait"
    /\ UNCHANGED <<files, panel, wf>>
    /\ \E r \in JsonReplies(ScoreValues) : Return_score_quality(r)

Next == Call \/ ExtractReply \/ GenerateReply \/ ScoreReply

Spec == Init /\ [][Next]_vars

----------------------------------------------------------------------------
(* Title resolution: generate_article with topics supplied, on generated
   contents of every shape up to MaxLines lines *)

T2 == Str(<<"T2">>)
S2 == Str(<<"S2">>)

\* the lines generated content is made of: a whitespace-only line, a
\* second-level heading and two different top-level headings
TitleLines ==
    {BlankLine, Line("h2", <<"Sub">>), Line("h1", <<"A">>), Line("h1", <<"B">>)}

\* non-empty replies to the generation request whose title is resolved
TitleContents == SeqsUpTo(TitleLines, MaxLines) \ {<<>>}

\* the TopicAnalysis values whose titles and topics are there or not
TitleTopics ==
    { <<List(<<T1, T2>>), List(<<I1>>), List(<<Q1>>), List(<<S1, S2>>)>>,
      <<List(<<T1, T2>>), List(<<I1>>), List(<<Q1>>), List(<<>>)>>,
      <<List(<<>>), List(<<I1>>), List(<<Q1>>), List(<<S1, S2>>)>>,
      <<List(<<>>), List(<<>>), List(<<>>), List(<<>>)>> }

CallTitle ==
    /\ pc = "idle"
    /\ UNCHANGED <<files, panel, wf>>
    /\ \E tv \in TitleTopics : Call_generate_article(0, "blog", TRUE, tv, FALSE)

GenerateTitle ==
    /\ pc = "generate_wait"
    /\ UNCHANGED <<files, panel, wf>>
    /\ \E c \in TitleContents : Return_generate_article(Text(c))

NextTitle == CallTitle \/ GenerateTitle

SpecTitle == Init /\ [][NextTitle]_vars

----------------------------------------------------------------------------
(* Construction of an Article: the generated __init__ has assigned the
   arguments to the fields, __post_init__ is about to run *)

ArticleContents ==
    SeqsUpTo({BlankLine, Para, Line("h1", <<"My", "Title">>)}, MaxContentLines)

\* the word_count argument: left at its default 0, or given
WordCountArguments == {0, 3, 7}

InitArticle ==
    /\ pc = "post_init"
    /\ op = "Article"
    /\ article \in
          { [title |-> Str(<<"My", "Title">>), format |-> f, content |-> c,
             topics |-> 1, word_count |-> w, quality_score |-> 0] :
               f \in {"blog", "social"}, c \in ArticleContents,
               w \in WordCountArguments }
    /\ heap = <<List(<<>>)>>
    /\ text = 0
    /\ on_progress = FALSE
    /\ formats = <<>>
    /\ i = 0
    /\ format = "none"
    /\ supplied = FALSE
    /\ topics = NoTopics
    /\ articles = <<>>
    /\ progress = <<>>
    /\ requests = <<>>
    /\ replies = <<>>
    /\ result = NoResult
    /\ exc = "none"
    /\ files = <<>>
    /\ panel = NoPanel
    /\ wf = NoWorkflow

post_init ==
    /\ pc = "post_init"
    /\ UNCHANGED <<files, panel, wf>>
    /\ article' = Article(article.title, article.format, article.content,
                          article.topics, article.word_count)
    /\ Returned(article')
    /\ UNCHANGED <<op, text, on_progress, formats, i, format, supplied, topics, heap,
                   articles, progress, requests, replies>>

SpecArticle == InitArticle /\ [][post_init]_vars

----------------------------------------------------------------------------
(* Prompt building: generate_article with topics supplied, for every format
   selector and for source texts around the caps *)

\* lengths of the source text: below, at and above each cap
PromptTexts == {0, 1, SocialTextCap - 1, SocialTextCap, SocialTextCap + 1,
                max_text_len - 1, max_text_len, max_text_len + 1,
                TopicTextCap + 1, 50000}

CallPrompt ==
    /\ pc = "idle"
    /\ UNCHANGED <<files, panel, wf>>
    /\ \E t \in PromptTexts, fmt \in FormatSet \cup UnknownFormats,
          tv \in SuppliedTopics, cb \in BOOLEAN :
             Call_generate_article(t, fmt, TRUE, tv, cb)

GeneratePrompt ==
    /\ pc = "generate_wait"
    /\ UNCHANGED <<files, panel, wf>>
    /\ \E r \in GenerateReplies : Return_generate_article(r)

NextPrompt == CallPrompt \/ GeneratePrompt

SpecPrompt == Init /\ [][NextPrompt]_vars

----------------------------------------------------------------------------
(* Unfencing: extract_topics and score_quality on replies that hold a JSON
   text bare or wrapped in a code fence *)

\* the JSON texts of the documents V, and of the documents F that hold the
\* fence marker inside a string value
JsonTexts(V, F) ==
    {<<Doc(v)>> : v \in V} \cup {<<DocHead(v), Fence, DocTail(v)>> : v \in F}

Pads == {<<>>, <<Ws>>}

\* J with whitespace around it
BareForms(J) == {pre \o J \o post : pre \in Pads, post \in Pads}

\* J in a code fence: the opening fence line, with the tag json or without,
\* then J, then the closing fence; whitespace around all of it
FencedForms(J) ==
    {pre \o <<Fence>> \o tag \o <<Ws>> \o J \o mid \o <<Fence>> \o post :
        pre \in Pads, tag \in {<<>>, <<JsonTag>>}, mid \in Pads, post \in Pads}

\* an extraction reply with a quote that holds the fence marker
FencedQuote == Dict([topics |-> List(<<T1>>), quotes |-> List(<<Str(<<"Q", "fence", "Q">>)>>)])

\* a rating with a note that holds the fence marker
FencedNote == Dict([overall |-> Num(7), note |-> Str(<<"fence">>)])

ExtractTexts == JsonTexts(ExtractValues, {FencedQuote})
ScoreTexts == JsonTexts(ScoreValues, {FencedNote})

CallParse ==
    /\ pc = "idle"
    /\ UNCHANGED <<files, panel, wf>>
    /\ \/ \E cb \in BOOLEAN : Call_extract_topics(0, cb)
       \/ \E a \in ScoredArticles : Call_score_quality(a)

ParseExtract ==
    /\ pc = "extract_wait"
    /\ UNCHANGED <<files, panel, wf>>
    /\ \E J \in ExtractTexts : \E x \in BareForms(J) \cup FencedForms(J) :
          Return_extract_topics(Text(x))

ParseScore ==
    /\ pc = "score_wait"
    /\ UNCHANGED <<files, panel, wf>>
    /\ \E J \in ScoreTexts : \E x \in BareForms(J) \cup FencedForms(J) :
          Return_score_quality(Text(x))

NextParse == CallParse \/ ParseExtract \/ ParseScore

SpecParse == Init /\ [][NextParse]_vars

----------------------------------------------------------------------------
(* The caller of generate_all_formats, who owns the Articles it returns and
   appends a topic to the topic list of one of them *)

CallAllFormats ==
    /\ pc = "idle"
    /\ UNCHANGED <<files, panel, wf>>
    /\ \E cb \in BOOLEAN, fs \in FormatLists : Call_generate_all_formats(0, FALSE, fs, cb)

\* result.articles[k].topics.append("X")
CallerAppend(k) ==
    /\ pc = "returned"
    /\ op = "generate_all_formats"
    /\ k \in 1..Len(result.articles)
    /\ heap[result.articles[k].topics].t = "list"
    /\ heap' = [heap EXCEPT ![result.articles[k].topics] =
                                List(Append(@.a, Str(<<"X">>)))]
    /\ pc' = "mutated"
    /\ UNCHANGED <<op, text, on_progress, formats, i, format, supplied, topics,
                   articles, article, progress, requests, replies, result, exc>>

CallerMutates ==
    /\ pc = "returned"
    /\ UNCHANGED <<files, panel, wf>>
    /\ \E k \in 1..MaxFormats : CallerAppend(k)

NextCaller == CallAllFormats \/ ExtractReply \/ GenerateReply \/ CallerMutates

SpecCaller == Init /\ [][NextCaller]_vars

----------------------------------------------------------------------------
(* export_all_articles(articles, directory); a title is a str of
   one-character chunks *)

\* c.isalnum(), on the characters the titles are made of
isalnum(c) == c \in {"a", "b", "x", "7"}

\* "".join(c if c.isalnum() or c in ' -_' else '_' for c in title)
ReplaceUnsafe(s) ==
    [k \in 1..Len(s) |-> IF isalnum(s[k]) \/ s[k] \in {" ", "-", "_"} THEN s[k] ELSE "_"]

\* safe_title: the replaced title, cut to 50 characters, then stripped
safe_title(title) ==
    LET replaced == ReplaceUnsafe(title.s) IN
    rstripChars(lstripChars(SubSeq(replaced, 1, Min(Len(replaced), SafeTitleLen))))

\* os.path.join(directory, f"{safe_title}_{article.format.value}.md")
md_path(a) == <<"directory", "/">> \o safe_title(a.title) \o <<"_", a.format, ".md">>

\* export_article_md: the file at filepath is opened for writing and holds
\* the content, whatever it held before
export_article_md(a, filepath, fs) ==
    [p \in DOMAIN fs \cup {filepath} |-> IF p = filepath THEN a.content ELSE fs[p]]

\* the directory after the loop over arts
RECURSIVE ExportLoop(_, _)
ExportLoop(arts, fs) ==
    IF arts = <<>> THEN fs
    ELSE ExportLoop(Tail(arts), export_article_md(Head(arts), md_path(Head(arts)), fs))

\* a title of 51 characters that ends in c
LongTitle(c) == [k \in 1..(SafeTitleLen + 1) |-> IF k > SafeTitleLen THEN c ELSE "x"]

ExportTitles ==
    { <<"a">>, <<"a", "/", "b">>, <<"a", ":", "b">>, <<" ", "a", "-", "7">>,
      LongTitle("a"), LongTitle("b") }

ExportedArticles ==
    { Article(Str(t), f, c, 1, 0) :
        t \in ExportTitles, f \in {"blog", "faq"},
        c \in {<<Para>>, <<Line("h1", <<"My", "Title">>), Para>>} }

InitExport ==
    /\ pc = "export"
    /\ op = "export_all_articles"
    /\ articles \in SeqsUpTo(ExportedArticles, MaxArticles)
    /\ heap = <<List(<<T1>>)>>
    /\ files = <<>>
    /\ text = 0
    /\ on_progress = FALSE
    /\ formats = <<>>
    /\ i = 0
    /\ format = "none"
    /\ supplied = FALSE
    /\ topics = NoTopics
    /\ article = NoArticle
    /\ progress = <<>>
    /\ requests = <<>>
    /\ replies = <<>>
    /\ result = NoResult
    /\ exc = "none"
    /\ panel = NoPanel
    /\ wf = NoWorkflow

export_all_articles ==
    /\ pc = "export"
    /\ files' = ExportLoop(articles, files)
    /\ UNCHANGED <<panel, wf>>
    /\ Returned([k \in 1..Len(articles) |-> md_path(articles[k])])
    /\ UNCHANGED <<op, text, on_progress, formats, i, format, supplied, topics, heap,
                   articles, article, progress, requests, replies>>

SpecExport == InitExport /\ [][export_all_articles]_vars

----------------------------------------------------------------------------
(* Progress reporting: the three methods that take a callback, with lists of
   up to MaxSlices formats *)

\* a list of n formats
Alternating(n) == [k \in 1..n |-> IF k % 2 = 1 THEN "faq" ELSE "summary"]

\* replies to the extraction request: none, the structure asked for, and a
\* JSON number
ProgressExtractReplies ==
    { Absent,
      Text(<<Doc(Dict([topics |-> List(<<T1>>), insights |-> List(<<I1>>),
                       quotes |-> List(<<Q1>>), titles |-> List(<<S1>>)]))>>),
      Text(<<Doc(Num(7))>>) }

\* replies to a generation request: none, and one paragraph
ProgressGenerateReplies == {Absent, Text(<<Para>>)}

CallProgress ==
    /\ pc = "idle"
    /\ UNCHANGED <<files, panel, wf>>
    /\ \/ \E cb \in BOOLEAN : Call_extract_topics(0, cb)
       \/ \E fmt \in {"faq", "social"}, cb \in BOOLEAN, tv \in SuppliedTopics :
             Call_generate_article(0, fmt, TRUE, tv, cb)
       \/ \E fmt \in {"faq", "social"}, cb \in BOOLEAN :
             Call_generate_article(0, fmt, FALSE, <<>>, cb)
       \/ \E n \in 0..MaxSlices, cb \in BOOLEAN :
             Call_generate_all_formats(0, FALSE, Alternating(n), cb)

ExtractReplyProgress ==
    /\ pc = "extract_wait"
    /\ UNCHANGED <<files, panel, wf>>
    /\ \E r \in ProgressExtractReplies :
          \/ op = "extract_topics" /\ Return_extract_topics(r)
          \/ op = "generate_article" /\ generate_article_topics(r)
          \/ op = "generate_all_formats" /\ generate_all_formats_topics(r)

GenerateReplyProgress ==
    /\ pc = "generate_wait"
    /\ UNCHANGED <<files, panel, wf>>
    /\ \E r \in ProgressGenerateReplies :
          \/ op = "generate_article" /\ Return_generate_article(r)
          \/ op = "generate_all_formats" /\ generate_all_formats_article(r)

NextProgress == CallProgress \/ ExtractReplyProgress \/ GenerateReplyProgress

SpecProgress == Init /\ [][NextProgress]_vars

----------------------------------------------------------------------------
(* The AI processing panel (src/ui/ai_panel.py): AIProcessingPanel with its
   StatusIndicator, its three buttons and its connection-check timer.
   has_transcription is the argument of the latest set_has_transcription
   call, probes the outcomes of the availability probes sent so far, ticks
   the number of timeouts of check_timer. *)

\* the outcome of a probe: is_available(), then get_model_name() if connected
ProbeOutcomes ==
    { [connected |-> FALSE, model_name |-> PyNone],
      [connected |-> TRUE, model_name |-> PyNone],
      [connected |-> TRUE, model_name |-> Str(<<"model">>)] }

\* StatusIndicator.set_connected(connected, model_name)
set_connected(pn, connected, model_name) ==
    [pn EXCEPT !.connected = connected, !.model_name = model_name]

\* the panel after __init__: _setup_ui, then the first _check_connection
InitPanel ==
    /\ pc = "idle"
    /\ op = "AIProcessingPanel"
    /\ \E o \in ProbeOutcomes :
          panel = [processing |-> FALSE, connected |-> o.connected,
                   model_name |-> o.model_name, clean_btn |-> FALSE,
                   generate_btn |-> FALSE, generate_all_btn |-> FALSE,
                   progress_visible |-> FALSE, has_transcription |-> FALSE,
                   probes |-> <<o>>, ticks |-> 0]
    /\ wf = NoWorkflow
    /\ text = 0
    /\ on_progress = FALSE
    /\ formats = <<>>
    /\ i = 0
    /\ format = "none"
    /\ supplied = FALSE
    /\ topics = NoTopics
    /\ heap = <<>>
    /\ articles = <<>>
    /\ article = NoArticle
    /\ progress = <<>>
    /\ requests = <<>>
    /\ replies = <<>>
    /\ result = NoResult
    /\ exc = "none"
    /\ files = <<>>

PanelFrame ==
    UNCHANGED <<pc, op, text, on_progress, formats, i, format, supplied, topics, heap,
                articles, article, progress, requests, replies, result, exc, files, wf>>

\* a connection check that probes the service whatever the panel is doing
check_connection_always ==
    /\ panel.ticks < MaxTicks
    /\ \E o \in ProbeOutcomes :
          panel' = [set_connected(panel, o.connected, o.model_name) EXCEPT
                       !.probes = Append(@, o), !.ticks = @ + 1]
    /\ PanelFrame

\* check_timer.timeout: _check_connection
check_connection ==
    /\ panel.ticks < MaxTicks
    /\ IF panel.processing
       THEN panel' = [panel EXCEPT !.ticks = @ + 1]
       ELSE \E o \in ProbeOutcomes :
               panel' = [set_connected(panel, o.connected, o.model_name) EXCEPT
                            !.probes = Append(@, o), !.ticks = @ + 1]
    /\ PanelFrame

\* set_has_transcription(has_transcription)
set_has_transcription ==
    /\ \E has_transcription \in BOOLEAN :
          LET connected == panel.connected
              enabled == has_transcription /\ connected /\ ~panel.processing
          IN
          panel' = [panel EXCEPT !.clean_btn = enabled, !.generate_btn = enabled,
                                 !.generate_all_btn = enabled,
                                 !.has_transcription = has_transcription]
    /\ PanelFrame

\* set_processing(processing)
set_processing ==
    /\ \E processing \in BOOLEAN :
          panel' = [panel EXCEPT
                       !.processing = processing,
                       !.progress_visible = processing,
                       !.clean_btn = ~processing /\ panel.connected,
                       !.generate_btn = ~processing /\ panel.connected,
                       !.generate_all_btn = ~processing /\ panel.connected]
    /\ PanelFrame

NextPanel == check_connection \/ set_has_transcription \/ set_processing

SpecPanel == InitPanel /\ [][NextPanel]_vars

----------------------------------------------------------------------------
(* The command-line workflow (src/zoom_to_blog.py): run_workflow with its own
   extract_topics, generate_blog_post and generate_social_snippets.  requests
   and replies log the calls of call_lm_studio, files is the session
   directory. *)

\* len(v)
py_len(v) ==
    CASE v.t = "list" -> Ok(Len(v.a))
      [] v.t = "str" -> Ok(Len(v.s))
      [] v.t = "dict" -> Ok(Cardinality(DOMAIN v.o))
      [] OTHER -> Raise("TypeError")

\* extract_topics of zoom_to_blog.py from "if response:" on: the value
\* returned, or the exception that escapes
workflow_extract_topics(resp) ==
    IF ResponseTruthy(resp)
    THEN LET stripped == strip(resp.text)
             clean_response ==
                 IF startswith(stripped, Fence)
                 THEN LET inner == SplitFence1(stripped) IN
                      IF startswith(inner, JsonTag) THEN Tail(inner) ELSE inner
                 ELSE stripped
             parsed == json_loads(clean_response)
         IN
         IF parsed.ok
         THEN LET found == dict_get(parsed.v, "topics", List(<<>>)) IN
              IF ~found.ok THEN Raise(found.e)
              ELSE IF ~py_len(found.v).ok THEN Raise(py_len(found.v).e)
              ELSE Ok(parsed.v)
         ELSE Ok(Dict([raw |-> Str(<<"response">>), topics |-> List(<<>>),
                       insights |-> List(<<>>), quotes |-> List(<<>>)]))
    ELSE Ok(PyNone)

\* the prompt generate_blog_post builds, or the exception raised on the way
blog_generation_prompt(transcription, tps) ==
    LET joined == JoinStrings(dict_get(tps, "topics", List(<<>>)).v)
        insights == Iterate(dict_get(tps, "insights", List(<<>>)).v)
    IN
    IF ~joined.ok THEN joined
    ELSE IF ~insights.ok THEN insights
    ELSE Ok([template |-> "BLOG_GENERATION_PROMPT", topics |-> joined.v,
             insights |-> insights.v, transcription |-> transcription])

\* open(path, 'w') and write: the file holds content, whatever it held before
write_file(fs, path, content) ==
    [p \in DOMAIN fs \cup {path} |-> IF p = path THEN content ELSE fs[p]]

\* what transcribe_audio returns: None, an empty text, a text
Transcriptions == {PyNone, Str(<<>>), Str(<<"words">>)}

WorkflowFrame ==
    UNCHANGED <<op, text, on_progress, formats, i, format, supplied, topics, heap,
                articles, article, progress, panel>>

\* run_workflow up to the call of transcribe_audio
Call_run_workflow ==
    /\ pc = "idle"
    /\ op' = "run_workflow"
    /\ \E input_exists \in BOOLEAN, audio_extracted \in BOOLEAN, skip_lm \in BOOLEAN :
          /\ wf' = [skip_lm |-> skip_lm, transcription |-> PyNone, probed |-> PyNone,
                    topics |-> PyNone, blog_content |-> Absent]
          /\ IF input_exists /\ audio_extracted
             THEN pc' = "transcribe_wait" /\ UNCHANGED <<result, exc>>
             ELSE Returned(Bool(FALSE))
    /\ UNCHANGED <<text, on_progress, formats, i, format, supplied, topics, heap,
                   articles, article, progress, panel, requests, replies, files>>

\* from the return of transcribe_audio to the connection probe
Return_transcribe_audio ==
    /\ pc = "transcribe_wait"
    /\ \E transcription \in Transcriptions :
          /\ wf' = [wf EXCEPT !.transcription = transcription]
          /\ IF ~Truthy(transcription)
             THEN Returned(Bool(FALSE)) /\ UNCHANGED files
             ELSE /\ files' = write_file(files, "transcription.txt", transcription)
                  /\ IF wf.skip_lm
                     THEN Returned(Bool(TRUE))
                     ELSE pc' = "probe_wait" /\ UNCHANGED <<result, exc>>
    /\ UNCHANGED <<requests, replies>>
    /\ WorkflowFrame

\* from the return of check_lm_studio_connection to the topics request
Return_check_lm_studio_connection ==
    /\ pc = "probe_wait"
    /\ \E connected \in BOOLEAN :
          /\ wf' = [wf EXCEPT !.probed = Bool(connected)]
          /\ IF ~connected
             THEN Returned(Bool(TRUE)) /\ UNCHANGED requests
             ELSE /\ requests' = Append(requests,
                        [template |-> "TOPIC_EXTRACTION_PROMPT",
                         transcription |-> wf.transcription])
                  /\ pc' = "topics_wait"
                  /\ UNCHANGED <<result, exc>>
    /\ UNCHANGED <<replies, files>>
    /\ WorkflowFrame

\* from the reply to the topics request to the blog request
Return_workflow_extract_topics ==
    /\ pc = "topics_wait"
    /\ \E r \in PipelineExtractReplies :
          /\ replies' = Append(replies, r)
          /\ LET found == workflow_extract_topics(r) IN
             IF ~found.ok
             THEN Raised(found.e) /\ UNCHANGED <<wf, files, requests>>
             ELSE LET tps == IF Truthy(found.v) THEN found.v
                             ELSE Dict([topics |-> List(<<>>), insights |-> List(<<>>),
                                        quotes |-> List(<<>>)])
                      prompt == blog_generation_prompt(wf.transcription, tps)
                  IN
                  /\ wf' = [wf EXCEPT !.topics = tps]
                  /\ files' = IF Truthy(found.v)
                              THEN write_file(files, "topics.json", found.v) ELSE files
                  /\ IF prompt.ok
                     THEN /\ requests' = Append(requests, prompt.v)
                          /\ pc' = "blog_wait"
                          /\ UNCHANGED <<result, exc>>
                     ELSE Raised(prompt.e) /\ UNCHANGED requests
    /\ WorkflowFrame

\* from the reply to the blog request to the social request (the blog
\* content in its prompt is cut to 4000 characters; the contents here are
\* shorter)
Return_generate_blog_post ==
    /\ pc = "blog_wait"
    /\ \E r \in GenerateReplies :
          /\ replies' = Append(replies, r)
          /\ wf' = [wf EXCEPT !.blog_content = r]
          /\ IF ResponseTruthy(r)
             THEN /\ files' = write_file(files, "blog_draft.md", r.text)
                  /\ requests' = Append(requests,
                        [template |-> "SOCIAL_SNIPPETS_PROMPT", blog_content |-> r.text])
                  /\ pc' = "social_wait"
                  /\ UNCHANGED <<result, exc>>
             ELSE Returned(Bool(TRUE)) /\ UNCHANGED <<files, requests>>
    /\ WorkflowFrame

\* from the reply to the social request to the return
Return_generate_social_snippets ==
    /\ pc = "social_wait"
    /\ \E r \in GenerateReplies :
          /\ replies' = Append(replies, r)
          /\ files' = IF ResponseTruthy(r)
                      THEN write_file(files, "social_snippets.txt", r.text) ELSE files
          /\ Returned(Bool(TRUE))
    /\ UNCHANGED <<wf, requests>>
    /\ WorkflowFrame

NextWorkflow ==
    \/ Call_run_workflow
    \/ Return_transcribe_audio
    \/ Return_check_lm_studio_connection
    \/ Return_workflow_extract_topics
    \/ Return_generate_blog_post
    \/ Return_generate_social_snippets

SpecWorkflow == Init /\ [][NextWorkflow]_vars

----------------------------------------------------------------------------
(* Vocabulary of the properties *)

Finished == pc \in {"returned", "raised"}

Last(sq) == sq[Len(sq)]

NonDecreasing(sq) == \A k \in 1..(Len(sq) - 1) : sq[k] <= sq[k + 1]

IsExtractionPrompt(p) == p.template = "TOPIC_EXTRACTION_PROMPT"

\* positions in the request log of the topic-extraction requests
ExtractionRequests == {k \in 1..Len(requests) : IsExtractionPrompt(requests[k])}

\* the reply to the extraction request has arrived
ExtractionReplied ==
    /\ requests # <<>>
    /\ replies # <<>>
    /\ IsExtractionPrompt(requests[1])

\* the service returned nothing usable as text: None or the empty string
AbsentOrEmpty(r) == IsAbsent(r) \/ r.text = <<>>

ListOfStrings(v) == v.t = "list" /\ \A k \in 1..Len(v.a) : v.a[k].t = "str"

TopicKeys == {"topics", "insights", "quotes", "titles"}

\* a JSON document of the structure the extraction prompt asks for
ExpectedStructure(v) ==
    /\ v.t = "dict"
    /\ \A key \in DOMAIN v.o \cap TopicKeys : ListOfStrings(v.o[key])

\* a textual reply holding a JSON document that is not of that structure
MalformedReply(r) ==
    /\ ~IsAbsent(r)
    /\ \E k \in 1..Len(r.text) :
          r.text[k].k = "doc" /\ ~ExpectedStructure(r.text[k].v)

----------------------------------------------------------------------------
(* C1: generate_all_formats returns, for every list of formats and every
   outcome of the service requests, a GenerationResult with exactly one
   Article per requested format, the k-th Article in the k-th format. *)
C1_OneArticlePerFormat ==
    (op = "generate_all_formats" /\ Finished) =>
        /\ pc = "returned"
        /\ Len(result.articles) = Len(formats)
        /\ \A k \in 1..Len(formats) : result.articles[k].format = formats[k]

(* C2: in a generate_all_formats run the percentages delivered to the caller
   never decrease; when the replies are successful or absent the run returns,
   and the last percentage reported before it returns is 100. *)
C2_ProgressMonotone ==
    op = "generate_all_formats" =>
        /\ NonDecreasing(progress)
        /\ (pc = "returned" /\ on_progress) => (progress # <<>> /\ Last(progress) = 100)
        /\ pc = "raised" => MalformedReply(replies[1])

C2_Witness ==
    /\ op = "generate_all_formats"
    /\ pc = "returned"
    /\ on_progress
    /\ Len(formats) = 2
    /\ AbsentOrEmpty(replies[2])
    /\ ~AbsentOrEmpty(replies[3])
    /\ progress = <<0, 10, 30, 30, 42, 60, 72, 87, 90, 100>>

(* C3: generate_all_formats never raises, whatever the service replies. *)
C3_AlwaysReturns ==
    op = "generate_all_formats" => pc # "raised"

(* C4: extract_topics never raises and returns a TopicAnalysis with its four
   fields present, for every reply of the service. *)
C4_ExtractNeverRaises ==
    op = "extract_topics" =>
        /\ pc # "raised"
        /\ pc = "returned" => (result = TopicAnalysis(1) /\ Len(heap) = 4)

(* C5: when the extraction reply is absent, or is text that does not parse as
   JSON after unfencing, extract_topics returns exactly the fallback record:
   topics ["General Discussion"], insights ["Content analysis unavailable"],
   quotes [], titles ["Untitled Article"]. *)
C5_FallbackRecord ==
    (ExtractionReplied /\
       (IsAbsent(replies[1]) \/ ~json_loads(Unfence(replies[1].text)).ok)) =>
        /\ topics = TopicAnalysis(1)
        /\ heap[topics.main_topics] = List(<<Str(<<"General Discussion">>)>>)
        /\ heap[topics.key_insights] = List(<<Str(<<"Content analysis unavailable">>)>>)
        /\ heap[topics.notable_quotes] = List(<<>>)
        /\ heap[topics.suggested_titles] = List(<<Str(<<"Untitled Article">>)>>)
        /\ op = "extract_topics" => (pc = "returned" /\ result = topics)

C5_Witness ==
    /\ op = "extract_topics"
    /\ pc = "returned"
    /\ replies = <<Text(<<Fence, JsonTag, Junk>>)>>
    /\ heap[4] = List(<<Str(<<"Untitled Article">>)>>)

\* a str that float() accepts: digits, with spaces before and after them only
NumericString(v) ==
    /\ v.t = "str"
    /\ \E a \in 1..Len(v.s) : \E b \in a..Len(v.s) :
          /\ \A k \in 1..Len(v.s) :
                IF k \in a..b THEN v.s[k] \in {Digits[d] : d \in 1..Len(Digits)}
                ELSE v.s[k] = " "

\* a value of "overall" that is not a number
NonNumeric(v) ==
    \/ v.t \in {"None", "list", "dict"}
    \/ v.t = "str" /\ ~NumericString(v)

\* the rating failed: no reply, no JSON, no object, or a non-numeric "overall"
RatingFailed(r) ==
    \/ AbsentOrEmpty(r)
    \/ ~json_loads(Unfence(r.text)).ok
    \/ LET data == json_loads(Unfence(r.text)).v IN
          \/ data.t # "dict"
          \/ "overall" \in DOMAIN data.o /\ NonNumeric(data.o["overall"])

(* C6: on every failure of the rating (absent reply, reply that is not JSON,
   JSON that is not an object, non-numeric "overall") score_quality returns
   exactly 5.0 and does not raise. *)
C6_DefaultOnFailure ==
    (op = "score_quality" /\ Finished /\ RatingFailed(replies[1])) =>
        (pc = "returned" /\ result = Num(5))

(* C7: whenever score_quality returns a value v, the article's quality_score
   equals v when the call returns. *)
C7_ScoreStored ==
    (op = "score_quality" /\ pc = "returned") =>
        article.quality_score = result.n

\* the reply to the generation request of the Article a, and what a must be
SentinelOrContent(r, a, fmt) ==
    IF AbsentOrEmpty(r)
    THEN /\ a.title = Str(<<"Generation Failed">>)
         /\ a.content = <<Line("para", <<"Unable", "to", "generate", "article.",
                           "Please", "check", "LM", "Studio", "connection.">>)>>
         /\ a.format = fmt
         /\ a.topics = topics.main_topics
    ELSE a.content = r.text

(* C8: when the generation reply is absent or empty, generate_article does not
   raise and returns the sentinel Article: title "Generation Failed", the fixed
   message as content, the requested format and the main topics of the
   TopicAnalysis in use; a non-empty reply never yields the sentinel, its text
   is the content of the Article. *)
C8_SentinelArticle ==
    /\ (op = "generate_article" /\ pc = "returned") =>
          (article = result /\ SentinelOrContent(Last(replies), article, format))
    /\ op = "generate_all_formats" =>
          \A k \in 1..Len(articles) :
              SentinelOrContent(replies[k + 1], articles[k], formats[k])
    /\ (op \in {"generate_article", "generate_all_formats"} /\ pc = "raised"
          /\ Len(replies) = Len(requests)
          /\ ~IsExtractionPrompt(Last(requests))
          /\ AbsentOrEmpty(Last(replies))) =>
          (op = "generate_all_formats" /\ Len(articles) = Len(replies) - 1)

C8_Witness ==
    /\ op = "generate_article"
    /\ pc = "returned"
    /\ format = "social"
    /\ Last(replies) = Text(<<>>)
    /\ article.title = Str(<<"Generation Failed">>)
    /\ heap[article.topics] = List(<<T1>>)

(* C9: every generate_article call with a progress callback that returns has
   100 as its last reported percentage, also when the sentinel failure Article
   is returned. *)
C9_LastIs100 ==
    (op = "generate_article" /\ pc = "returned" /\ on_progress) =>
        Last(progress) = 100

(* C10: a generate_all_formats run issues exactly one topic-extraction request,
   as its first request, and every Article of the run refers to the main topics
   of the one TopicAnalysis stored in the GenerationResult; generate_article
   with topics supplied issues no extraction request. *)
C10_ExtractOnce ==
    /\ op = "generate_all_formats" =>
          /\ ExtractionRequests = {1}
          /\ \A k \in 1..Len(articles) : articles[k].topics = topics.main_topics
          /\ pc = "returned" =>
                /\ result.topic_analysis = topics
                /\ result.articles = articles
                /\ \A k \in 1..Len(result.articles) :
                      result.articles[k].topics = result.topic_analysis.main_topics
    /\ (op = "generate_article" /\ supplied) => ExtractionRequests = {}

C10_Witness ==
    /\ op = "generate_all_formats"
    /\ pc = "returned"
    /\ Len(requests) = 3
    /\ Len(result.articles) = 2
    /\ AbsentOrEmpty(replies[2])
    /\ ~AbsentOrEmpty(replies[3])
    /\ heap[result.articles[1].topics] = List(<<T1>>)
    /\ heap[result.articles[2].topics] = List(<<T1>>)

(* C11: no request is ever resubmitted: a finished call of extract_topics, of
   generate_article with topics supplied, or of score_quality has issued
   exactly one service request whatever the reply was, and a finished
   generate_all_formats run over N formats has issued exactly N + 1 requests,
   also when the replies are absent or malformed. *)
C11_NoResubmission ==
    /\ (op \in {"extract_topics", "score_quality"} /\ Finished) => Len(requests) = 1
    /\ (op = "generate_article" /\ supplied /\ Finished) => Len(requests) = 1
    /\ (op = "generate_all_formats" /\ Finished) => Len(requests) = Len(formats) + 1

\* the lines of c from its first line that is not blank
RECURSIVE FromFirstNonBlank(_)
FromFirstNonBlank(c) ==
    IF c # <<>> /\ c[1] = BlankLine THEN FromFirstNonBlank(Tail(c)) ELSE c

\* the first (at most) five lines of c
FirstFive(c) == SubSeq(c, 1, IF Len(c) < 5 THEN Len(c) ELSE 5)

\* positions of the lines of w that begin with the top-level heading marker
TopHeadings(w) == {k \in 1..Len(w) : w[k].l = "h1"}

\* the earliest of a non-empty set of positions
Earliest(P) == CHOOSE k \in P : \A j \in P : k <= j

\* the title the topic record gives when the content gives none
TopicTitle ==
    LET st == heap[topics.suggested_titles].a
        mt == heap[topics.main_topics].a
    IN IF st # <<>> THEN st[1]
       ELSE IF mt # <<>> THEN mt[1] ELSE Str(<<"Untitled Article">>)

\* generate_article has returned an Article made from generated content
TitleResolved ==
    /\ op = "generate_article"
    /\ pc = "returned"
    /\ ~AbsentOrEmpty(Last(replies))

(* C12: the title of an Article made from generated content follows the
   precedence content heading > first suggested title > first topic >
   "Untitled Article": a top-level heading in the scanned lines is the title
   whatever the topic record holds; without one the title is the first
   suggested title; if there is none either, the first topic; and if both
   lists are empty, the literal. *)
C12_TitlePrecedence ==
    TitleResolved =>
        LET w == FirstFive(FromFirstNonBlank(Last(replies).text))
            st == heap[topics.suggested_titles].a
            mt == heap[topics.main_topics].a
        IN
        /\ TopHeadings(w) # {} => \E k \in TopHeadings(w) : result.title = Str(w[k].s)
        /\ (TopHeadings(w) = {} /\ st # <<>>) => result.title = st[1]
        /\ (TopHeadings(w) = {} /\ st = <<>> /\ mt # <<>>) => result.title = mt[1]
        /\ (TopHeadings(w) = {} /\ st = <<>> /\ mt = <<>>) =>
              result.title = Str(<<"Untitled Article">>)

C12_Witness ==
    /\ TitleResolved
    /\ Last(replies).text = <<Line("h2", <<"Sub">>), Line("h1", <<"A">>), Line("h1", <<"B">>)>>
    /\ heap[topics.suggested_titles] = List(<<S1, S2>>)
    /\ heap[topics.main_topics] = List(<<T1, T2>>)
    /\ result.title = Str(<<"A">>)

(* C13: title resolution looks at no more than the first 5 lines of the
   content, counting every line as generated, blank leading lines included:
   when the first line beginning with the top-level heading marker is the 6th
   or a later one, the title is the topic-based fallback; the text of a
   second-level heading is never the title; and the earliest top-level
   heading among the first 5 lines is the title. *)
C13_FiveLineWindow ==
    TitleResolved =>
        LET c == Last(replies).text IN
        /\ (TopHeadings(c) # {} /\ Earliest(TopHeadings(c)) >= 6) =>
              result.title = TopicTitle
        /\ result.title # Str(<<"Sub">>)
        /\ TopHeadings(FirstFive(c)) # {} =>
              result.title = Str(c[Earliest(TopHeadings(FirstFive(c)))].s)

(* C13 as amended: the same, with the lines counted from the first line of
   the content that is not blank. *)
C13_FiveLineWindowStripped ==
    TitleResolved =>
        LET c == FromFirstNonBlank(Last(replies).text) IN
        /\ (TopHeadings(c) # {} /\ Earliest(TopHeadings(c)) >= 6) =>
              result.title = TopicTitle
        /\ result.title # Str(<<"Sub">>)
        /\ TopHeadings(FirstFive(c)) # {} =>
              result.title = Str(c[Earliest(TopHeadings(FirstFive(c)))].s)

C13_Witness ==
    /\ TitleResolved
    /\ Last(replies).text =
          <<Line("h2", <<"Sub">>), Line("h2", <<"Sub">>), Line("h2", <<"Sub">>),
            Line("h2", <<"Sub">>), Line("h2", <<"Sub">>), Line("h1", <<"A">>)>>
    /\ heap[topics.suggested_titles] = List(<<S1, S2>>)
    /\ result.title = S1

(* C14: every Article, however it is constructed (also with an explicit
   word_count argument), has word_count equal to the number of
   whitespace-separated tokens of its content once construction completes. *)
C14_WordCountDerived ==
    (op = "Article" /\ pc = "returned") =>
        article.word_count = WordCount(article.content)

\* the cap of a format: 5,000 characters for social, 12,000 for every other
FormatCap(fmt) == IF fmt = "social" THEN 5000 ELSE 12000

\* the prefix of a text (given by its length) of at most n characters
Prefix(t, n) == IF t <= n THEN t ELSE n

\* generate_article, called with topics, has sent its prompt
PromptSent == op = "generate_article" /\ supplied /\ requests # <<>>

(* C15: for every format and topic record, the prompt built from a source
   text is the prompt built from that text truncated at the format's cap
   (12,000 characters, 5,000 for social). *)
C15_TruncateThenBuild ==
    PromptSent =>
        get_format_prompt(Prefix(text, FormatCap(format)), format, topics, heap)
            = Ok(requests[1])

C15_Witness ==
    /\ PromptSent
    /\ text = 12001
    /\ format = "blog"
    /\ requests[1].text = 12000
    /\ requests[1].topics = List(<<T1>>)

(* C16: the source text interpolated into a format prompt is the prefix of
   the input of length min(len(text), cap), with cap = 5,000 for social and
   12,000 for every other format, the generic fallback included. *)
C16_PromptTextCapped ==
    PromptSent =>
        /\ requests[1].text = Prefix(text, FormatCap(format))
        /\ requests[1].text <= FormatCap(format)

C16_Witness ==
    /\ PromptSent
    /\ text = 50000
    /\ format = "social"
    /\ requests[1].template = "SOCIAL_PROMPT"
    /\ requests[1].text = 5000

(* C18: a format selector outside the five known formats is not rejected:
   generate_article called with such a value, with or without a progress
   callback, does not raise, sends the generic "Summarize this text" prompt
   built from the source text truncated to 12,000 characters, and returns an
   Article. *)
C18_UnknownFormatAccepted ==
    (op = "generate_article" /\ format \in UnknownFormats) =>
        /\ pc # "raised"
        /\ requests =
              <<[template |-> "Summarize this text", text |-> Prefix(text, 12000)]>>
        /\ pc = "returned" => (result = article /\ article.format = format)

\* the call ended as extract_topics ends on the reply r
EndsAsExtract(r) ==
    LET p == extract_topics_parse(r) IN
    IF p.ok THEN pc = "returned" /\ heap = p.v ELSE pc = "raised" /\ exc = p.e

\* the call ended as score_quality ends on the reply r
EndsAsScore(r) ==
    LET q == score_quality_finish(r, article) IN
    IF q.ok THEN pc = "returned" /\ result = Num(q.v) ELSE pc = "raised" /\ exc = q.e

(* C17: for every JSON text J, a reply consisting of J wrapped in a code
   fence (opening fence line, tagged json or not, then J, then a closing
   fence), with or without whitespace around it, is parsed to the same object
   as the bare reply J, also when J holds the fence marker inside a string
   value: extract_topics and score_quality end on it as they end on J. *)
C17_FenceTransparent ==
    /\ (op = "extract_topics" /\ Finished) =>
          \A J \in ExtractTexts :
              replies[1].text \in BareForms(J) \cup FencedForms(J) => EndsAsExtract(Text(J))
    /\ (op = "score_quality" /\ Finished) =>
          \A J \in ScoreTexts :
              replies[1].text \in BareForms(J) \cup FencedForms(J) => EndsAsScore(Text(J))

(* C19: each Article holds its own copy of the topic list: when, after
   generate_all_formats has returned, the caller changes the topic list of
   one returned Article, the topic list of every other returned Article and
   the main topics of the TopicAnalysis of the GenerationResult stay as they
   were. *)
C19_OwnTopicList ==
    [][\A k \in 1..Len(articles) :
          CallerAppend(k) =>
              /\ \A j \in 1..Len(result.articles) \ {k} :
                    heap'[result.articles[j].topics] = heap[result.articles[j].topics]
              /\ heap'[result.topic_analysis.main_topics]
                    = heap[result.topic_analysis.main_topics]]_vars

\* the title with every character other than letters, digits, space, '-'
\* and '_' replaced by '_', cut to at most 50 characters
SlugOf(title) ==
    LET r == [k \in 1..Len(title.s) |->
                 IF isalnum(title.s[k]) \/ title.s[k] \in {" ", "-", "_"}
                 THEN title.s[k] ELSE "_"]
    IN SubSeq(r, 1, IF Len(r) < 50 THEN Len(r) ELSE 50)

(* C20: export_all_articles writes one file per Article: the returned paths
   are pairwise distinct, each file holds exactly its Article's content, and
   each file name is the title with every character other than letters,
   digits, space, '-' and '_' replaced by '_', cut to at most 50 characters,
   followed by '_', the format tag and '.md'. *)
C20_OneFilePerArticle ==
    (op = "export_all_articles" /\ pc = "returned") =>
        /\ Len(result) = Len(articles)
        /\ \A j \in 1..Len(result) : \A k \in 1..Len(result) :
              j # k => result[j] # result[k]
        /\ \A k \in 1..Len(result) :
              /\ result[k] \in DOMAIN files
              /\ files[result[k]] = articles[k].content
              /\ result[k] = <<"directory", "/">> \o SlugOf(articles[k].title)
                                \o <<"_", articles[k].format, ".md">>

\* the number of reports format k (1-based) of the run has made once its
\* Article is appended: two for the sentinel Article, four otherwise
RECURSIVE ReportsOfAppended(_)
ReportsOfAppended(k) ==
    IF k = 0 THEN 0
    ELSE (IF AbsentOrEmpty(replies[k + 1]) THEN 2 ELSE 4) + ReportsOfAppended(k - 1)

(* C21: within one generate_all_formats run at most one service request is
   outstanding at any moment, and the generation of format i+1 starts (its
   first progress report and its request) only after the response for format
   i has been received and its Article appended: the requests sent are one
   ahead of the replies at most, a generation request is in flight only when
   the Articles of all formats before it are in the list, and the reports
   made so far are those of the appended Articles and of the one format in
   flight. *)
C21_OneOutstanding ==
    op = "generate_all_formats" =>
        /\ Len(requests) - Len(replies) \in {0, 1}
        /\ pc \in {"extract_wait", "generate_wait"} <=> Len(requests) = Len(replies) + 1
        /\ Len(articles) <= Len(replies)
        /\ pc = "generate_wait" =>
              /\ Len(articles) = Len(requests) - 2
              /\ Len(replies) = Len(articles) + 1
              /\ on_progress =>
                    Len(progress) = 3 + ReportsOfAppended(Len(articles)) + 2
        /\ (pc = "returned" /\ on_progress) =>
              Len(progress) = 3 + ReportsOfAppended(Len(articles)) + 1

C21_Witness ==
    /\ op = "generate_all_formats"
    /\ pc = "generate_wait"
    /\ on_progress
    /\ Len(formats) = 2
    /\ Len(articles) = 1
    /\ Len(requests) = 3
    /\ Len(replies) = 2
    /\ progress = <<0, 10, 30, 30, 42, 57, 60, 60, 72>>

\* the internal reports <<i, p>> of format i (0-based) forwarded so far: 0 and
\* 40 before its request, 90 and 100 after a reply that is not absent or empty
ReportsOfFormat(k) ==
    <<<<k, 0>>, <<k, 40>>>>
    \o (IF Len(replies) >= k + 2 /\ ~AbsentOrEmpty(replies[k + 2])
        THEN <<<<k, 90>>, <<k, 100>>>> ELSE <<>>)

\* the internal reports of the first k formats, in order
RECURSIVE ForwardedReports(_)
ForwardedReports(k) ==
    IF k = 0 THEN <<>> ELSE ForwardedReports(k - 1) \o ReportsOfFormat(k - 1)

\* a generate_all_formats run with a callback is between two formats or done
Forwarding ==
    /\ op = "generate_all_formats"
    /\ on_progress
    /\ pc \in {"generate_wait", "returned"}

\* the integer part of 30 + 60 i / N + 0.6 p / N
SliceFormula(p, k, n) == (300 * n + 600 * k + 6 * p) \div (10 * n)

(* C22: for N requested formats, the percentage forwarded to the caller for
   the format at 0-based position i when it reports internal progress p is
   the integer part of 30 + 60 i/N + 0.6 p/N, so the reports of format i lie
   between 30 + 60 i/N and 30 + 60 (i+1)/N and never exceed the first report
   of format i+1. *)
C22_SliceFormula ==
    Forwarding =>
        LET n == Len(formats)
            fr == ForwardedReports(Len(requests) - 1)
        IN
        /\ Len(progress) >= 3 + Len(fr)
        /\ \A j \in 1..Len(fr) :
              LET k == fr[j][1]
                  p == fr[j][2]
                  actual == progress[3 + j]
              IN
              /\ actual = SliceFormula(p, k, n)
              /\ 30 * n + 60 * k <= actual * n
              /\ actual * n <= 30 * n + 60 * (k + 1)
              /\ \A j2 \in 1..Len(fr) :
                    fr[j2] = <<k + 1, 0>> => actual <= progress[3 + j2]

(* C22 as amended: the percentage forwarded is 30 + int(60 i/N) +
   int(0.6 p/N), each quotient cut to its integer part before the sum, so the
   reports of format i lie between 30 + int(60 i/N) and 30 + int(60 (i+1)/N)
   and never exceed the first report of format i+1. *)
C22_SliceFormulaTruncated ==
    Forwarding =>
        LET n == Len(formats)
            fr == ForwardedReports(Len(requests) - 1)
        IN
        /\ Len(progress) >= 3 + Len(fr)
        /\ \A j \in 1..Len(fr) :
              LET k == fr[j][1]
                  p == fr[j][2]
                  actual == progress[3 + j]
              IN
              /\ actual = 30 + ((60 * k) \div n) + ((6 * p) \div (10 * n))
              /\ 30 + ((60 * k) \div n) <= actual
              /\ actual <= 30 + ((60 * (k + 1)) \div n)
              /\ \A j2 \in 1..Len(fr) :
                    fr[j2] = <<k + 1, 0>> => actual <= progress[3 + j2]

C22_Witness ==
    /\ Forwarding
    /\ pc = "returned"
    /\ Len(formats) = 7
    /\ \A k \in 2..8 : ~AbsentOrEmpty(replies[k])
    /\ progress[8] = 38
    /\ progress[9] = 41
    /\ progress[10] = 45
    /\ progress[11] = 46
    /\ progress[12] = 47

\* the reports of generate_article up to the generation request
ReportsToRequest == IF supplied THEN <<0, 40>> ELSE <<0, 10, 30, 40>>

(* C23: a successful generate_article call with a progress callback reports,
   in this order: 0 at start; then, only if no topics were supplied, 10
   before the extraction request and 30 after its response; 40 before the
   generation request is sent; 90 after the response is received and the
   title resolved; 100 last.  No report is made between sending the
   generation request and receiving its response. *)
C23_Milestones ==
    (op = "generate_article" /\ on_progress) =>
        /\ pc = "extract_wait" => (~supplied /\ progress = <<0, 10>>)
        /\ pc = "generate_wait" => progress = ReportsToRequest
        /\ (pc = "returned" /\ ~AbsentOrEmpty(Last(replies))) =>
              progress = ReportsToRequest \o <<90, 100>>

C23_Witness ==
    /\ op = "generate_article"
    /\ on_progress
    /\ ~supplied
    /\ pc = "returned"
    /\ Len(requests) = 2
    /\ ~AbsentOrEmpty(replies[2])
    /\ result.title = Str(<<"My", "Title">>)
    /\ progress = <<0, 10, 30, 40, 90, 100>>

\* the field of the TopicAnalysis each key of the extraction object fills
KeyField ==
    [topics |-> "main_topics", insights |-> "key_insights",
     quotes |-> "notable_quotes", titles |-> "suggested_titles"]

\* the extraction reply parsed, after unfencing, to a JSON object
ParsedToObject(r) ==
    /\ ~AbsentOrEmpty(r)
    /\ json_loads(Unfence(r.text)).ok
    /\ json_loads(Unfence(r.text)).v.t = "dict"

(* C24: when the extraction response parses to a JSON object that lacks some
   of the keys topics, insights, quotes, titles, extract_topics returns a
   TopicAnalysis in which each missing key's field is the empty list and each
   present key's field is the parsed value; the fixed fallback record is not
   substituted (an empty object gives four empty lists). *)
C24_MissingKeysEmpty ==
    (op = "extract_topics" /\ Finished /\ ParsedToObject(replies[1])) =>
        LET o == json_loads(Unfence(replies[1].text)).v.o IN
        /\ pc = "returned"
        /\ result = TopicAnalysis(1)
        /\ \A key \in TopicKeys :
              heap[result[KeyField[key]]] =
                  IF key \in DOMAIN o THEN o[key] ELSE List(<<>>)
        /\ DOMAIN o \cap TopicKeys = {} =>
              heap = <<List(<<>>), List(<<>>), List(<<>>), List(<<>>)>>

C24_Witness ==
    /\ op = "extract_topics"
    /\ pc = "returned"
    /\ replies = <<Text(<<Fence, Doc(Dict([topics |-> List(<<T1>>)])), Fence>>)>>
    /\ heap = <<List(<<T1>>), List(<<>>), List(<<>>), List(<<>>)>>

(* C25: topic extraction and quality scoring apply the same
   unfence-then-parse procedure: for every raw response text both either
   obtain the same structured object or both treat it as a parse failure; no
   response is accepted by one and rejected by the other.  A call of either
   method ends as the other's procedure reads the reply: extract_topics gives
   the fallback record exactly on the texts scoring cannot parse, and
   score_quality gives the rating of the object extraction would obtain. *)
C25_SameProcedure ==
    /\ (op \in {"extract_topics", "score_quality"} /\ Finished
          /\ ~AbsentOrEmpty(replies[1])) =>
          json_loads(Unfence(replies[1].text)) = json_loads(UnfenceScore(replies[1].text))
    /\ (op = "extract_topics" /\ Finished /\ ~AbsentOrEmpty(replies[1])) =>
          LET scored == json_loads(UnfenceScore(replies[1].text)) IN
          /\ ~scored.ok => (pc = "returned" /\ heap = FallbackAnalysis)
          /\ (scored.ok /\ scored.v.t = "dict" /\ "topics" \in DOMAIN scored.v.o) =>
                (pc = "returned" /\ heap[1] = scored.v.o["topics"])
    /\ (op = "score_quality" /\ Finished /\ ~AbsentOrEmpty(replies[1])) =>
          LET extracted == json_loads(Unfence(replies[1].text)) IN
          /\ ~extracted.ok => (pc = "returned" /\ result = Num(5))
          /\ (extracted.ok /\ extracted.v.t = "dict"
                /\ "overall" \in DOMAIN extracted.v.o
                /\ extracted.v.o["overall"].t = "num") =>
                (pc = "returned" /\ result = Num(extracted.v.o["overall"].n))

C25_Witness ==
    /\ op = "score_quality"
    /\ pc = "returned"
    /\ replies = <<Text(<<Fence, JsonTag, Doc(Dict([overall |-> Num(7), clarity |-> Num(8)]))>>)>>
    /\ result = Num(7)
    /\ article.quality_score = 7

\* generate_article or generate_all_formats has its TopicAnalysis
TopicsInUse ==
    /\ op \in {"generate_article", "generate_all_formats"}
    /\ topics # NoTopics

(* C26: the pipeline only reads the TopicAnalysis: generate_article, prompt
   building, title resolution and every format generation of a
   generate_all_formats run leave its four lists unchanged, so the
   TopicAnalysis in the returned GenerationResult equals the value
   extract_topics returned at the start of the run. *)
C26_TopicsReadOnly ==
    /\ [](op = "generate_all_formats" /\ pc = "returned" =>
            /\ result.topic_analysis = topics
            /\ Ok(heap) = extract_topics_parse(replies[1]))
    /\ [][TopicsInUse => (topics' = topics /\ heap' = heap)]_vars

C26_Witness ==
    /\ op = "generate_all_formats"
    /\ pc = "returned"
    /\ Len(result.articles) = 2
    /\ result.articles[1].title = S1
    /\ result.articles[2].title = S1
    /\ heap[result.topic_analysis.suggested_titles] = List(<<S1>>)
    /\ heap[result.topic_analysis.main_topics] = List(<<T1>>)

(* C27: every percentage delivered to the progress callback by
   extract_topics, generate_article and generate_all_formats is an integer
   between 0 and 100, and inside generate_all_formats every report forwarded
   from a per-format generation lies between 30 and 90, for every number of
   formats N >= 1. *)
C27_PercentRange ==
    /\ \A j \in 1..Len(progress) : progress[j] \in 0..100
    /\ Forwarding =>
          \A j \in 1..Len(ForwardedReports(Len(requests) - 1)) :
              progress[3 + j] \in 30..90

C27_Witness ==
    /\ Forwarding
    /\ pc = "returned"
    /\ Len(formats) = 7
    /\ Len(progress) = 32
    /\ progress[28] = 81
    /\ progress[31] = 89
    /\ progress[32] = 100

\* one of the three buttons of the panel is enabled
SomeButtonEnabled ==
    panel.clean_btn \/ panel.generate_btn \/ panel.generate_all_btn

(* C28: in the AI processing panel, after any sequence of
   set_has_transcription, set_processing and periodic connection checks, the
   clean / generate / generate-all buttons are enabled only if a
   transcription is available, the status indicator shows connected, and no
   processing is in progress. *)
C28_ButtonsGuarded ==
    (op = "AIProcessingPanel" /\ SomeButtonEnabled) =>
        /\ panel.has_transcription
        /\ panel.connected
        /\ ~panel.processing

(* C29: while the panel is in the processing state, a periodic
   connection-check tick sends no availability probe to the service and
   leaves the connection status indicator unchanged; probing resumes on the
   first tick after processing is cleared: a tick of a panel that is not
   processing sends one probe and shows its outcome. *)
C29_NoProbeWhileProcessing ==
    [][(op = "AIProcessingPanel" /\ panel'.ticks = panel.ticks + 1) =>
          IF panel.processing
          THEN /\ panel'.probes = panel.probes
               /\ panel'.connected = panel.connected
               /\ panel'.model_name = panel.model_name
          ELSE /\ Len(panel'.probes) = Len(panel.probes) + 1
               /\ panel'.connected = Last(panel'.probes).connected
               /\ panel'.model_name = Last(panel'.probes).model_name]_vars

C29_Witness ==
    /\ op = "AIProcessingPanel"
    /\ ~panel.processing
    /\ panel.ticks = 3
    /\ Len(panel.probes) = 2
    /\ ~panel.probes[1].connected
    /\ panel.probes[2].connected
    /\ panel.connected
    /\ panel.model_name = Str(<<"model">>)

\* positions in the request log of the social-snippet requests
SocialRequests ==
    {k \in 1..Len(requests) : requests[k].template = "SOCIAL_SNIPPETS_PROMPT"}

\* transcribe_audio has returned a text that is not empty
TranscriptionSucceeded == wf.transcription.t = "str" /\ wf.transcription.s # <<>>

(* C30: in run_workflow a text-generation request is issued only after the
   transcription succeeded and was saved, skip_lm is false and the connection
   probe succeeded; the social-snippet request is issued only after a blog
   post was generated; and the workflow returns success whenever
   transcription succeeded, whatever the outcome of the connection probe or
   of any later generation request. *)
C30_WorkflowGuards ==
    op = "run_workflow" =>
        /\ requests # <<>> =>
              /\ TranscriptionSucceeded
              /\ "transcription.txt" \in DOMAIN files
              /\ files["transcription.txt"] = wf.transcription
              /\ ~wf.skip_lm
              /\ wf.probed = Bool(TRUE)
        /\ SocialRequests # {} =>
              /\ Len(replies) >= 2
              /\ ~AbsentOrEmpty(replies[2])
              /\ "blog_draft.md" \in DOMAIN files
        /\ (Finished /\ TranscriptionSucceeded) =>
              (pc = "returned" /\ result = Bool(TRUE))

====
